---- MODULE Spec2Model ----
(***************************************************************************)
(* A model of the TMDB catalog client (src/modules/tmdb_client.py):        *)
(* the retrying transport, the in-memory cache, title resolution, detail   *)
(* retrieval, single and batch enrichment, and the rate limiter.           *)
(*                                                                         *)
(* Python values are represented as follows.  None is the integer -1 where *)
(* an integer is expected, NoneStr where an opaque string is expected and  *)
(* the record NoneRec where a dict is expected.                            *)
(* A str is a sequence of one-character strings, so that slicing, regular  *)
(* expressions and similarity are computed character by character.  A dict *)
(* is a record; a missing key is a field that is not in its DOMAIN.        *)
(***************************************************************************)
EXTENDS Integers, Sequences, FiniteSets, TLC

VARIABLES
    cache,              \* TMDBClient.cache: cache key -> cached value
    fr,                 \* one activation record per thread (0: the caller, i > 0: future i)
    job,                \* the caller's enrich_movies activation
    hist,               \* history of completed lookups since the cache was last cleared
    now,                \* the clock of the rate limiter, in ticks
    last_request_time,  \* TMDBClient.last_request_time
    rl,                 \* per worker: its position in _wait_for_rate_limit and its locals
    permits,            \* history: the times at which the limiter let a request out
    pool,               \* the caller's build_candidate_pool activation
    px                  \* an application of a pure function: its arguments and its result

vars == <<cache, fr, job, hist, now, last_request_time, rl, permits, pool, px>>

(***************************************************************************)
(* Bounds of the model.                                                    *)
(***************************************************************************)
MaxMovies == 2          \* longest list handed to enrich_movies
MaxBatchSize == 2       \* largest batch_size handed to enrich_movies
MaxTime == 4            \* the rate limiter's clock stops here
NumCallers == 2         \* pool workers that call _make_request concurrently
MaxPermits == 3         \* requests the rate limiter is asked to let out
MaxWatched == 2         \* longest watched list handed to build_candidate_pool
MaxNeighbours == 2      \* most results in an answer of a neighbour endpoint
MaxCandidates == 2      \* largest max_candidates handed to build_candidate_pool
MaxTitleLen == 4        \* longest title handed to _normalize_title on its own
MaxResults == 2         \* results drawn freely in an answer handed to the strategies

(***************************************************************************)
(* Python basics.                                                          *)
(***************************************************************************)
None == -1
NoneRec == [none |-> TRUE]
NoneStr == "None"
EmptyDict == [k \in {} |-> None]
NoExc == "no_exception"

\* bool(x) of an optional integer: None and 0 are falsy.
Truthy(x) == x # None /\ x # 0

\* d.get(k, default)
Get(d, k, default) == IF k \in DOMAIN d THEN d[k] ELSE default

\* The class hierarchy (lines 20-32, requests.exceptions, builtins).
Supers(exc) ==
    CASE exc = "TMDBAPIError" -> {"TMDBAPIError", "TMDBError", "Exception"}
      [] exc = "MovieNotFoundError" -> {"MovieNotFoundError", "TMDBError", "Exception"}
      [] exc = "Timeout" -> {"Timeout", "RequestException", "Exception"}
      [] exc = "ConnectionError" -> {"ConnectionError", "RequestException", "Exception"}
      [] exc = "KeyError" -> {"KeyError", "Exception"}
      [] exc = "RetryError" -> {"RetryError", "Exception"}
      [] OTHER -> {}

IsInstance(exc, cls) == cls \in Supers(exc)

(***************************************************************************)
(* Strings.                                                                *)
(***************************************************************************)
UpperChars == <<"A","B","C","D","E","F","G","H","I","J","K","L","M",
                "N","O","P","Q","R","S","T","U","V","W","X","Y","Z">>
LowerChars == <<"a","b","c","d","e","f","g","h","i","j","k","l","m",
                "n","o","p","q","r","s","t","u","v","w","x","y","z">>
Digits == {"0","1","2","3","4","5","6","7","8","9"}
Whitespace == {" ", "\t"}

Range(s) == {s[i] : i \in 1..Len(s)}

\* str.lower(), one character
LowerChar(c) ==
    IF \E i \in 1..Len(UpperChars) : UpperChars[i] = c
    THEN LowerChars[CHOOSE i \in 1..Len(UpperChars) : UpperChars[i] = c]
    ELSE c

Lower(s) == [i \in 1..Len(s) |-> LowerChar(s[i])]

StartsWith(s, p) == Len(s) >= Len(p) /\ SubSeq(s, 1, Len(p)) = p

RECURSIVE LStripSpace(_)
LStripSpace(s) ==
    IF s # <<>> /\ Head(s) \in Whitespace THEN LStripSpace(Tail(s)) ELSE s

\* The alternatives of the regular expression of line 147.
Articles ==
    { <<"t","h","e">>, <<"a">>, <<"a","n">>, <<"l","e">>, <<"l","a">>,
      <<"l","e","s">>, <<"u","n">>, <<"u","n","e">>, <<"d","e","r">>,
      <<"d","i","e">>, <<"d","a","s">>, <<"e","l">>, <<"l","o","s">>,
      <<"l","a","s">> }

\* re.sub(r'^(the|a|...)\s+', '', s): an article at the start that is followed
\* by whitespace is removed together with all the whitespace after it.
StripArticle(s) ==
    LET hits == {a \in Articles :
                    /\ StartsWith(s, a)
                    /\ Len(s) > Len(a)
                    /\ s[Len(a) + 1] \in Whitespace}
    IN  IF hits = {} THEN s
        ELSE LET a == CHOOSE a \in hits : TRUE
             IN  LStripSpace(SubSeq(s, Len(a) + 1, Len(s)))

\* re.sub(r'[^a-z0-9\s]', '', s)
KeepChar(c) == c \in Range(LowerChars) \/ c \in Digits \/ c \in Whitespace
StripSpecial(s) == SelectSeq(s, KeepChar)

\* ' '.join(s.split())
RECURSIVE JoinSplit(_)
JoinSplit(s) ==
    LET t == LStripSpace(s)
    IN  IF t = <<>> THEN <<>>
        ELSE IF Len(t) > 1 /\ t[2] \in Whitespace
             THEN LET rest == JoinSplit(Tail(t))
                  IN  IF rest = <<>> THEN <<t[1]>> ELSE <<t[1], " ">> \o rest
             ELSE <<t[1]>> \o (IF Len(t) > 1 /\ t[2] \notin Whitespace
                               THEN JoinSplit(Tail(t)) ELSE <<>>)

_normalize_title(title) == JoinSplit(StripSpecial(StripArticle(Lower(title))))

\* Length of a longest common subsequence of a[i..] and b[j..].
RECURSIVE LCS(_, _, _, _)
LCS(a, b, i, j) ==
    IF i > Len(a) \/ j > Len(b) THEN 0
    ELSE IF a[i] = b[j] THEN 1 + LCS(a, b, i + 1, j + 1)
    ELSE LET x == LCS(a, b, i + 1, j)
             y == LCS(a, b, i, j + 1)
         IN  IF x >= y THEN x ELSE y

\* Variant: the similarity on the scale 0..1.
RatioUnscaled(a, b) ==
    IF Len(a) + Len(b) = 0 THEN [n |-> 1, d |-> 1]
    ELSE [n |-> 2 * LCS(a, b, 1, 1), d |-> Len(a) + Len(b)]

\* rapidfuzz fuzz.ratio: 100 * (1 - indel_distance / (len(a) + len(b))), 100 for
\* two empty strings.  The value is a float; it is kept as the fraction n / d.
Ratio(a, b) ==
    IF Len(a) + Len(b) = 0 THEN [n |-> 100, d |-> 1]
    ELSE [n |-> 200 * LCS(a, b, 1, 1), d |-> Len(a) + Len(b)]

FracAdd(f, k) == [n |-> f.n + k * f.d, d |-> f.d]
FracGt(f, g) == f.n * g.d > g.n * f.d
FracGeInt(f, k) == f.n >= k * f.d

DigitChars == <<"0","1","2","3","4","5","6","7","8","9">>

\* str(n) of a non-negative integer
RECURSIVE Str(_)
Str(n) == IF n < 10 THEN <<DigitChars[n + 1]>>
          ELSE Str(n \div 10) \o <<DigitChars[(n % 10) + 1]>>

\* int(s) of a string of digits
RECURSIVE ParseInt(_)
ParseInt(s) == IF s = <<>> THEN 0
          ELSE 10 * ParseInt(SubSeq(s, 1, Len(s) - 1))
               + ((CHOOSE i \in 1..10 : DigitChars[i] = s[Len(s)]) - 1)

\* s[:4]
First4(s) == IF Len(s) > 4 THEN SubSeq(s, 1, 4) ELSE s

AllDigits(s) == \A i \in 1..Len(s) : s[i] \in Digits

(***************************************************************************)
(* Results of a computation that may raise.                                *)
(***************************************************************************)
Ret(v) == [raise |-> NoExc, value |-> v]
Raise(e) == [raise |-> e, value |-> None]

(***************************************************************************)
(* _fuzzy_match_title (lines 157-199).                                     *)
(***************************************************************************)
TopResults == 10
YearBonus == 15
DefaultThreshold == 85
LowerThreshold == 75

\* Variant: the year adds nothing to the score.
FuzzyScoreNoBonus(normalized_search, result, year) ==
    Ratio(normalized_search, _normalize_title(Get(result, "title", <<>>)))

\* The score of one result: the similarity of the normalized titles, plus the
\* bonus when a year is given and the result's release year equals it.
FuzzyScore(normalized_search, result, year) ==
    LET base == Ratio(normalized_search,
                      _normalize_title(Get(result, "title", <<>>)))
        result_year == First4(Get(result, "release_date", <<>>))
    IN  IF Truthy(year) /\ result_year # <<>> /\ Str(year) = result_year
        THEN FracAdd(base, YearBonus)
        ELSE base

\* The loop of lines 178-194 from result i on; result['id'] raises KeyError.
RECURSIVE FuzzyLoop(_, _, _, _, _, _, _)
FuzzyLoop(normalized_search, results, i, year, threshold, best_match, best_score) ==
    IF i > Len(results) \/ i > TopResults THEN Ret(best_match)
    ELSE LET score == FuzzyScore(normalized_search, results[i], year)
         IN  IF FracGt(score, best_score) /\ FracGeInt(score, threshold)
             THEN IF "id" \in DOMAIN results[i]
                  THEN FuzzyLoop(normalized_search, results, i + 1, year,
                                 threshold, results[i].id, score)
                  ELSE Raise("KeyError")
             ELSE FuzzyLoop(normalized_search, results, i + 1, year,
                            threshold, best_match, best_score)

_fuzzy_match_title(search_title, results, year, threshold) ==
    IF results = <<>> THEN Ret(None)
    ELSE FuzzyLoop(_normalize_title(search_title), results, 1, year, threshold,
                   None, [n |-> 0, d |-> 1])

(***************************************************************************)
(* The cache (lines 117-130).                                              *)
(***************************************************************************)
ENABLE_CACHE == TRUE

\* _get_cache_key('search', title, year or 'no_year'): the key is the prefix
\* and the arguments; a falsy year is the sentinel 'no_year'.
NoYear == 0
SearchKey(title, year) ==
    [op |-> "search", title |-> title,
     year |-> IF Truthy(year) THEN year ELSE NoYear]
\* Variant: one key for the details of every movie.
DetailsKeyShared(movie_id) == [op |-> "details", id |-> 0]

DetailsKey(movie_id) == [op |-> "details", id |-> movie_id]

\* dict.get(key) of an id-valued entry: None when the key is missing
_get_from_cache(c, key) ==
    IF ENABLE_CACHE /\ key \in DOMAIN c THEN c[key] ELSE None

\* Variant: the lookup of a dict-valued entry never hits.
GetDetailsNeverHits(c, key) == NoneRec

\* dict.get(key) of a dict-valued entry
GetDetailsFromCache(c, key) ==
    IF ENABLE_CACHE /\ key \in DOMAIN c THEN c[key] ELSE NoneRec

\* Variant: the write is lost.
SetInCacheLost(c, key, value) == c

_set_in_cache(c, key, value) ==
    IF ENABLE_CACHE
    THEN [k \in DOMAIN c \cup {key} |-> IF k = key THEN value ELSE c[k]]
    ELSE c

(***************************************************************************)
(* search_movie (lines 201-277), from the point where a query has          *)
(* answered.  A step is                                                    *)
(*   [next |-> "return", raise, value, store]  the call ends, and store    *)
(*       says whether _set_in_cache(cache_key, value) ran before, or       *)
(*   [next |-> "second_query"]  the title-only query is issued.            *)
(* how names the place that decided: "strategy1", "fuzzy_no_year", "fuzzy",  *)
(* "first_result", "lower_threshold" or "no_match".                         *)
(***************************************************************************)
Store(v, how) ==
    [next |-> "return", raise |-> NoExc, value |-> v, store |-> TRUE, how |-> how]
Throw(e) ==
    [next |-> "return", raise |-> e, value |-> None, store |-> FALSE, how |-> "raise"]
\* Variant: the title-only query is given up for a stored None.
NoSecondQuery ==
    [next |-> "return", raise |-> NoExc, value |-> None, store |-> TRUE,
     how |-> "no_match"]

SecondQuery ==
    [next |-> "second_query", raise |-> NoExc, value |-> None, store |-> FALSE,
     how |-> "none"]

\* results[0]['id']
FirstId(results, how) ==
    IF "id" \in DOMAIN results[1] THEN Store(results[1].id, how) ELSE Throw("KeyError")

\* Variant: the lowered threshold is never tried.
FromStrategy3NoLower(title, year, results, results_no_year, has_no_year) ==
    IF results # <<>>
    THEN LET f == _fuzzy_match_title(title, results, year, DefaultThreshold)
         IN  IF f.raise # NoExc THEN Throw(f.raise)
             ELSE IF Truthy(f.value) THEN Store(f.value, "fuzzy")
             ELSE FirstId(results, "first_result")
    ELSE Store(None, "no_match")

\* Lines 249-273: strategy 3, the first result as a last resort, the lowered
\* threshold, and no match.  has_no_year: results_no_year is a local.
FromStrategy3(title, year, results, results_no_year, has_no_year) ==
    IF results # <<>>
    THEN LET f == _fuzzy_match_title(title, results, year, DefaultThreshold)
         IN  IF f.raise # NoExc THEN Throw(f.raise)
             ELSE IF Truthy(f.value) THEN Store(f.value, "fuzzy")
             ELSE FirstId(results, "first_result")
    ELSE IF Truthy(year)
    THEN LET f == _fuzzy_match_title(
                      title,
                      IF has_no_year THEN results_no_year ELSE results,
                      year, LowerThreshold)
         IN  IF f.raise # NoExc THEN Throw(f.raise)
             ELSE IF Truthy(f.value) THEN Store(f.value, "lower_threshold")
             ELSE Store(None, "no_match")
    ELSE Store(None, "no_match")

\* Variant: the first result's year is not looked at.
AfterFirstQueryUnchecked(title, year, data) ==
    IF Truthy(year) THEN SecondQuery
    ELSE FromStrategy3(title, year, Get(data, "results", <<>>), <<>>, FALSE)

\* Lines 225-237: after the first query returned data.
AfterFirstQuery(title, year, data) ==
    LET results == Get(data, "results", <<>>)
    IN  IF /\ results # <<>>
           /\ Truthy(year)
           /\ First4(Get(results[1], "release_date", <<>>)) = Str(year)
        THEN FirstId(results, "strategy1")
        ELSE IF Truthy(year) THEN SecondQuery
        ELSE FromStrategy3(title, year, results, <<>>, FALSE)

\* Lines 241-273: after the title-only query returned data_no_year.
AfterSecondQuery(title, year, results, data_no_year) ==
    LET results_no_year == Get(data_no_year, "results", <<>>)
        f == _fuzzy_match_title(title, results_no_year, year, DefaultThreshold)
    IN  IF f.raise # NoExc THEN Throw(f.raise)
        ELSE IF Truthy(f.value) THEN Store(f.value, "fuzzy_no_year")
        ELSE FromStrategy3(title, year, results, results_no_year, TRUE)

(***************************************************************************)
(* _extract_movie_info (lines 321-420).                                    *)
(***************************************************************************)
IMAGE_BASE_URL == "https://image.tmdb.org/t/p/w500"
MaxCast == 5

Min(a, b) == IF a <= b THEN a ELSE b

AllHaveName(seq) == \A i \in 1..Len(seq) : "name" \in DOMAIN seq[i]
Names(seq) == [i \in 1..Len(seq) |-> seq[i].name]

IsDirector(person) == Get(person, "job", NoneStr) = "Director"

\* f"{self.image_base_url}{path}" if path else None; the URL is kept as the
\* pair of its two parts and None as the empty tuple.
ImageUrl(path) ==
    IF path # NoneStr /\ path # "" THEN <<IMAGE_BASE_URL, path>> ELSE <<>>

\* Lines 351-361: one entry of main_cast.
ActorData(person) ==
    [name |-> person.name,
     id |-> Get(person, "id", None),
     profile_path |-> Get(person, "profile_path", NoneStr),
     profile_url |-> ImageUrl(Get(person, "profile_path", NoneStr))]

\* Lines 375-379: the last non-empty certification of the release dates.
LastCertification(release_dates) ==
    LET rated == {i \in 1..Len(release_dates) :
                    /\ Get(release_dates[i], "certification", NoneStr) # NoneStr
                    /\ Get(release_dates[i], "certification", NoneStr) # ""}
    IN  IF rated = {} THEN NoneStr
        ELSE release_dates[CHOOSE i \in rated : \A j \in rated : j <= i].certification

\* Lines 367-380: the certification of the first US entry.
Certification(release_dates_data) ==
    IF DOMAIN release_dates_data # {} /\ "results" \in DOMAIN release_dates_data
    THEN LET rs == release_dates_data.results
             us == {i \in 1..Len(rs) : Get(rs[i], "iso_3166_1", NoneStr) = "US"}
         IN  IF us = {} THEN NoneStr
             ELSE LastCertification(
                      Get(rs[CHOOSE i \in us : \A j \in us : i <= j],
                          "release_dates", <<>>))
    ELSE NoneStr

\* datetime.strptime(release_date, '%Y-%m-%d').year, None on ValueError.  The
\* format wants a 4-digit year, "-", a month 1..12, "-", a day 1..31 (the
\* month and the day may have one digit; the day's upper limit per month is
\* not modelled).
SplitAt(s, i) == <<SubSeq(s, 1, i - 1), SubSeq(s, i + 1, Len(s))>>
ParseYear(release_date) ==
    IF release_date = <<>> THEN None
    ELSE IF Len(release_date) < 8 \/ release_date[5] # "-"
            \/ ~AllDigits(SubSeq(release_date, 1, 4))
    THEN None
    ELSE LET rest == SubSeq(release_date, 6, Len(release_date))
             dash == {i \in 1..Len(rest) : rest[i] = "-"}
         IN  IF Cardinality(dash) # 1 THEN None
             ELSE LET parts == SplitAt(rest, CHOOSE i \in dash : TRUE)
                      m == parts[1]
                      d == parts[2]
                  IN  IF /\ Len(m) \in 1..2 /\ AllDigits(m)
                         /\ Len(d) \in 1..2 /\ AllDigits(d)
                         /\ ParseInt(m) \in 1..12
                         /\ ParseInt(d) \in 1..31
                      THEN ParseInt(SubSeq(release_date, 1, 4))
                      ELSE None

\* Variant: the record copies only the keys the payload has.
ExtractPresentKeys(movie_data, credits_data, keywords_data, release_dates_data) ==
    Ret([k \in (DOMAIN movie_data \cap {"title", "overview", "runtime", "status"})
            \cup {"tmdb_id"} |->
         IF k = "tmdb_id" THEN Get(movie_data, "id", None) ELSE movie_data[k]])

_extract_movie_info(movie_data, credits_data, keywords_data, release_dates_data) ==
    LET genres_in == Get(movie_data, "genres", <<>>)
        crew == Get(credits_data, "crew", <<>>)
        directors_in == SelectSeq(crew, IsDirector)
        cast == Get(credits_data, "cast", <<>>)
        top_cast == SubSeq(cast, 1, Min(MaxCast, Len(cast)))
        keywords_in == Get(keywords_data, "keywords", <<>>)
        poster_path == Get(movie_data, "poster_path", NoneStr)
        release_date == Get(movie_data, "release_date", <<>>)
    IN  IF \/ ~AllHaveName(genres_in)
           \/ ~AllHaveName(directors_in)
           \/ ~AllHaveName(top_cast)
           \/ ~AllHaveName(keywords_in)
        THEN Raise("KeyError")
        ELSE Ret([tmdb_id |-> Get(movie_data, "id", None),
                  title |-> Get(movie_data, "title", NoneStr),
                  original_title |-> Get(movie_data, "original_title", NoneStr),
                  year |-> ParseYear(release_date),
                  release_date |-> release_date,
                  overview |-> Get(movie_data, "overview", ""),
                  genres |-> Names(genres_in),
                  directors |-> Names(directors_in),
                  cast |-> [i \in 1..Len(top_cast) |-> ActorData(top_cast[i])],
                  runtime |-> Get(movie_data, "runtime", None),
                  rating |-> Get(movie_data, "vote_average", None),
                  vote_average |-> Get(movie_data, "vote_average", None),
                  vote_count |-> Get(movie_data, "vote_count", None),
                  popularity |-> Get(movie_data, "popularity", None),
                  keywords |-> Names(keywords_in),
                  certification |-> Certification(release_dates_data),
                  poster_url |-> ImageUrl(poster_path),
                  poster_path |-> poster_path,
                  backdrop_path |-> Get(movie_data, "backdrop_path", NoneStr),
                  tagline |-> Get(movie_data, "tagline", ""),
                  status |-> Get(movie_data, "status", NoneStr),
                  budget |-> Get(movie_data, "budget", None),
                  revenue |-> Get(movie_data, "revenue", None),
                  imdb_id |-> Get(movie_data, "imdb_id", NoneStr)])

\* Variant: the detail record alone.
MergeDetailsOnly(movie, details) == details

\* {**movie, **details}
Merge(movie, details) ==
    [k \in DOMAIN movie \cup DOMAIN details |->
        IF k \in DOMAIN details THEN details[k] ELSE movie[k]]

(***************************************************************************)
(* _make_request (lines 75-115): one HTTP attempt, and the retry decorator *)
(* around it.                                                              *)
(***************************************************************************)
StopAfterAttempt == 3

\* The body of _make_request for one outcome of session.get: what it returns
\* or raises.
InnerRequest(outcome) ==
    IF outcome.kind = "response"
    THEN CASE outcome.status = 401 -> Raise("TMDBAPIError")
           [] outcome.status = 404 -> Raise("MovieNotFoundError")
           [] outcome.status = 429 -> Raise("TMDBAPIError")
           [] outcome.status # 200 -> Raise("TMDBAPIError")
           [] OTHER -> Ret(outcome.json)
    ELSE IF IsInstance(outcome.kind, "Timeout") THEN Raise("TMDBAPIError")
    ELSE IF IsInstance(outcome.kind, "RequestException") THEN Raise("TMDBAPIError")
    ELSE Raise(outcome.kind)

\* Variant: a predicate that retries whatever the attempt raised.
RetryEveryException(exc) == IsInstance(exc, "Exception")

\* retry=retry_if_exception_type(requests.exceptions.RequestException)
RetryIfExceptionType(exc) == IsInstance(exc, "RequestException")

\* tenacity's decision after attempt number attempt_number: return the value,
\* re-raise an exception the predicate rejects, give up with RetryError once
\* the stop condition holds, or retry.
Transport(attempt_number, outcome) ==
    LET r == InnerRequest(outcome)
    IN  IF r.raise = NoExc THEN [act |-> "return", exc |-> NoExc, json |-> r.value]
        ELSE IF ~RetryIfExceptionType(r.raise)
        THEN [act |-> "raise", exc |-> r.raise, json |-> EmptyDict]
        ELSE IF attempt_number >= StopAfterAttempt
        THEN [act |-> "raise", exc |-> "RetryError", json |-> EmptyDict]
        ELSE [act |-> "retry", exc |-> NoExc, json |-> EmptyDict]

\* What the log of a request records of an outcome.
OutcomeName(outcome) ==
    IF outcome.kind # "response" THEN outcome.kind
    ELSE CASE outcome.status = 200 -> "200"
           [] outcome.status = 401 -> "401"
           [] outcome.status = 404 -> "404"
           [] outcome.status = 429 -> "429"
           [] OTHER -> "other_status"

(***************************************************************************)
(* The catalog: what the server may answer, and what callers may ask.      *)
(***************************************************************************)
T_TheUp == <<"T","h","e"," ","U","p">>
T_Up == <<"U","p">>
T_UPbang == <<"U","P","!">>
T_Ups == <<"U","p","s">>
T_Xy == <<"X","y">>

Y1972 == 1972
Y1994 == 1994
DateOf(year) == Str(year) \o <<"-","0","5","-","0","1">>

Ids == {1, 2}

SearchResult(id, title, release_date) ==
    [id |-> id, title |-> title, release_date |-> release_date]

\* Bodies of a 200 answer of /search/movie.
SearchBodies ==
    { [results |-> <<>>],
      [page |-> 1],
      [results |-> <<SearchResult(1, T_Up, DateOf(Y1972))>>],
      [results |-> <<SearchResult(2, T_Ups, DateOf(Y1994))>>],
      [results |-> <<SearchResult(2, T_Xy, DateOf(Y1972)),
                     [id |-> 1, title |-> T_UPbang]>>],
      [results |-> <<[title |-> T_Up, release_date |-> DateOf(Y1972)]>>] }

FailureKinds == {"Timeout", "ConnectionError"}
ErrorStatuses == {401, 404, 429, 500}

Response(status, body) == [kind |-> "response", status |-> status, json |-> body]

Failures ==
    {Response(st, EmptyDict) : st \in ErrorStatuses}
        \cup {[kind |-> k] : k \in FailureKinds}

SearchOutcomes == {Response(200, b) : b \in SearchBodies} \cup Failures

\* Bodies of a 200 answer of /movie/{id}?append_to_response=...
FullDetails(id) ==
    [id |-> id, title |-> "Up", original_title |-> "Up",
     release_date |-> DateOf(Y1972), overview |-> "An old man flies.",
     genres |-> <<[id |-> 16, name |-> "Animation"]>>,
     runtime |-> 96, vote_average |-> 8, vote_count |-> 100, popularity |-> 50,
     poster_path |-> "/up.jpg", backdrop_path |-> "/upb.jpg",
     tagline |-> "", status |-> "Released", budget |-> 175, revenue |-> 735,
     imdb_id |-> "tt1049413",
     credits |-> [cast |-> <<[name |-> "Ed Asner", id |-> 1, profile_path |-> "/ea.jpg"],
                             [name |-> "Jordan Nagai"]>>,
                  crew |-> <<[name |-> "Pete Docter", job |-> "Director"],
                             [name |-> "Jonas Rivera", job |-> "Producer"]>>],
     keywords |-> [keywords |-> <<[id |-> 1, name |-> "balloon"]>>],
     release_dates |->
        [results |-> <<[iso_3166_1 |-> "FR",
                        release_dates |-> <<[certification |-> "U"]>>],
                       [iso_3166_1 |-> "US",
                        release_dates |-> <<[certification |-> "PG"],
                                            [certification |-> ""]>>]>>]]

SparseDetails(id) == [id |-> id, release_date |-> <<"1","9","7","2">>]
BrokenDetails(id) == [id |-> id, genres |-> <<[id |-> 16]>>]

DetailsBodies(id) ==
    IF id = 1 THEN {FullDetails(id), SparseDetails(id), BrokenDetails(id)}
    ELSE {FullDetails(id), BrokenDetails(id)}
DetailsOutcomes(id) == {Response(200, b) : b \in DetailsBodies(id)} \cup Failures

\* Items as the scrapers hand them over: {title, year}, the year optional.
Items ==
    { [title |-> T_TheUp, year |-> Y1972, slug |-> "up"],
      [title |-> <<>>, year |-> Y1972] }

QueryTitles == {T_TheUp}
QueryYears == {None, Y1972}

RECURSIVE SeqsUpTo(_, _)
SeqsUpTo(S, n) ==
    IF n = 0 THEN {<<>>}
    ELSE LET shorter == SeqsUpTo(S, n - 1)
         IN  shorter \cup {Append(q, x) : q \in {r \in shorter : Len(r) = n - 1}, x \in S}

(***************************************************************************)
(* Activation records.  A thread runs one of search_movie,                 *)
(* get_movie_details and enrich_movie; enrich_movie runs the other two     *)
(* inline.  pc is the next statement:                                      *)
(*   "queued"              submitted to the executor, not started          *)
(*   "enrich_movie"        line 432                                        *)
(*   "search_cache"        line 213                                        *)
(*   "search_req"          line 224                                        *)
(*   "search_req_no_year"  line 240                                        *)
(*   "details_cache"       line 291                                        *)
(*   "details_req"         line 302                                        *)
(*   "done"                returned or raised                              *)
(* The fields from attempts on are history of the activation: the HTTP     *)
(* attempts of its latest _make_request and how that ended (mr), the       *)
(* requests it issued, what search_movie (sid, via) and get_movie_details  *)
(* (details, dvia) gave it, and what was known of its key when it began.   *)
(***************************************************************************)
max_workers == 10
Caller == 0
Futures == 1..MaxBatchSize
Threads == {Caller} \cup Futures

IdleFrame ==
    [op |-> "none", pc |-> "idle", movie |-> NoneRec, title |-> <<>>,
     year |-> None, movie_id |-> None, results |-> <<>>,
     ret_id |-> None, ret_rec |-> NoneRec, exc |-> NoExc,
     attempts |-> 0, http |-> <<>>, mr |-> "none",
     nsearch |-> 0, ndetail |-> 0, sid |-> None, via |-> "none",
     details |-> NoneRec, dvia |-> "none", auth_failed |-> FALSE,
     prior_id |-> None, prior_absent |-> FALSE, prior_rec |-> NoneRec,
     prior_via |-> "none"]

EmptyMap == [k \in {} |-> None]
EmptyHist ==
    [resolved |-> EmptyMap, absent |-> {}, enriched |-> EmptyMap, via |-> EmptyMap]

\* The history is kept per query, as the caller wrote it.
Query(title, year) == <<title, year>>

\* What the history knows of a query when a search begins.
WithPriorSearch(f, h, title, year) ==
    [f EXCEPT !.title = title, !.year = year,
              !.prior_id = Get(h.resolved, Query(title, year), None),
              !.prior_absent = Query(title, year) \in h.absent]

SearchCall(h, title, year) ==
    WithPriorSearch([IdleFrame EXCEPT !.op = "search_movie", !.pc = "search_cache"],
                    h, title, year)

DetailsCall(movie_id) ==
    [IdleFrame EXCEPT !.op = "get_movie_details", !.pc = "details_cache",
                      !.movie_id = movie_id]

EnrichCall(h, movie, pc) ==
    [IdleFrame EXCEPT !.op = "enrich_movie", !.pc = pc, !.movie = movie,
                      !.prior_rec = Get(h.enriched, movie, NoneRec),
                      !.prior_via = Get(h.via, movie, "none")]

Put(m, k, v) == [x \in DOMAIN m \cup {k} |-> IF x = k THEN v ELSE m[x]]
Drop(m, k) == [x \in DOMAIN m \ {k} |-> m[x]]

\* The history after search_movie decided value for the query key.
HistAfterSearch(h, key, value) ==
    IF value # None
    THEN [h EXCEPT !.resolved = Put(@, key, value), !.absent = @ \ {key}]
    ELSE [h EXCEPT !.resolved = Drop(@, key), !.absent = @ \cup {key}]

\* The frame after one HTTP attempt with the given outcome.
Attempted(f, outcome, tr, which) ==
    [f EXCEPT !.attempts = @ + 1,
              !.http = IF f.attempts = 0 THEN <<OutcomeName(outcome)>>
                       ELSE Append(@, OutcomeName(outcome)),
              !.mr = CASE tr.act = "retry" -> "pending"
                       [] tr.act = "raise" -> tr.exc
                       [] OTHER -> "returned",
              !.nsearch = IF which = "search" THEN @ + 1 ELSE @,
              !.ndetail = IF which = "details" THEN @ + 1 ELSE @,
              !.auth_failed = @ \/ OutcomeName(outcome) = "401"]

\* get_movie_details returned d (lines 294, 315, 319) to its caller: the
\* thread's own caller, or enrich_movie at line 446.
DetailsReturns(f, d, how) ==
    IF f.op = "get_movie_details"
    THEN [f EXCEPT !.pc = "done", !.ret_rec = d, !.details = d, !.dvia = how]
    ELSE [f EXCEPT !.pc = "done", !.details = d, !.dvia = how,
                   !.ret_rec = IF d = NoneRec THEN NoneRec ELSE Merge(f.movie, d)]

\* search_movie returned v (lines 216, 234, ..., 277) to its caller: the
\* thread's own caller, or enrich_movie at line 439.
SearchReturns(f, v, how) ==
    IF f.op = "search_movie"
    THEN [f EXCEPT !.pc = "done", !.ret_id = v, !.sid = v, !.via = how]
    ELSE IF ~Truthy(v)
    THEN [f EXCEPT !.pc = "done", !.sid = v, !.via = how, !.ret_rec = NoneRec]
    ELSE [f EXCEPT !.pc = "details_cache", !.sid = v, !.via = how, !.movie_id = v]

\* An exception leaves the activation.
Raises(f, e) == [f EXCEPT !.pc = "done", !.exc = e, !.results = <<>>]

\* Line 275: except TMDBAPIError
SearchCatches(e) == IsInstance(e, "TMDBAPIError")

\* Line 317: except (TMDBAPIError, MovieNotFoundError)
DetailsCatches(e) ==
    IsInstance(e, "TMDBAPIError") \/ IsInstance(e, "MovieNotFoundError")

\* The effect of what follows a query of search_movie that returned data:
\* the frame, the cache and the history afterwards.
SearchDecides(f, c, h, st, results) ==
    LET key == SearchKey(f.title, f.year)
    IN  IF st.next = "second_query"
        THEN [f |-> [f EXCEPT !.pc = "search_req_no_year", !.results = results,
                              !.attempts = 0],
              c |-> c, h |-> h]
        ELSE IF st.raise # NoExc
        THEN [f |-> IF SearchCatches(st.raise)
                    THEN SearchReturns(f, None, "error")
                    ELSE Raises(f, st.raise),
              c |-> c, h |-> h]
        ELSE [f |-> SearchReturns([f EXCEPT !.results = <<>>], st.value, st.how),
              c |-> IF st.store THEN _set_in_cache(c, key, st.value) ELSE c,
              h |-> HistAfterSearch(h, Query(f.title, f.year), st.value)]

\* One HTTP attempt of a query of search_movie and what follows it.
SearchEffect(f, c, h, outcome) ==
    LET tr == Transport(f.attempts + 1, outcome)
        f1 == Attempted(f, outcome, tr, "search")
    IN  IF tr.act = "retry" THEN [f |-> f1, c |-> c, h |-> h]
        ELSE IF tr.act = "raise"
        THEN [f |-> IF SearchCatches(tr.exc)
                    THEN SearchReturns([f1 EXCEPT !.results = <<>>], None, "error")
                    ELSE Raises(f1, tr.exc),
              c |-> c, h |-> h]
        ELSE IF f.pc = "search_req"
        THEN SearchDecides(f1, c, h, AfterFirstQuery(f.title, f.year, tr.json),
                           Get(tr.json, "results", <<>>))
        ELSE SearchDecides(f1, c, h,
                           AfterSecondQuery(f.title, f.year, f.results, tr.json),
                           f.results)

\* One HTTP attempt of the request of get_movie_details and what follows it.
DetailsEffect(f, c, h, outcome) ==
    LET tr == Transport(f.attempts + 1, outcome)
        f1 == Attempted(f, outcome, tr, "details")
    IN  IF tr.act = "retry" THEN [f |-> f1, c |-> c, h |-> h]
        ELSE IF tr.act = "raise"
        THEN [f |-> IF DetailsCatches(tr.exc)
                    THEN DetailsReturns(f1, NoneRec, "error")
                    ELSE Raises(f1, tr.exc),
              c |-> c, h |-> h]
        ELSE LET x == _extract_movie_info(tr.json,
                                          Get(tr.json, "credits", EmptyDict),
                                          Get(tr.json, "keywords", EmptyDict),
                                          Get(tr.json, "release_dates", EmptyDict))
             IN  IF x.raise # NoExc
                 THEN [f |-> IF DetailsCatches(x.raise)
                             THEN DetailsReturns(f1, NoneRec, "error")
                             ELSE Raises(f1, x.raise),
                       c |-> c, h |-> h]
                 ELSE [f |-> DetailsReturns(f1, x.value, "request"),
                       c |-> _set_in_cache(c, DetailsKey(f.movie_id), x.value),
                       h |-> h]

\* The history after an activation ended: a record enrich_movie returned is
\* remembered under its item.
HistAfterEnrich(h, f) ==
    IF f.op = "enrich_movie" /\ f.pc = "done" /\ f.exc = NoExc /\ f.ret_rec # NoneRec
    THEN [h EXCEPT !.enriched = Put(@, f.movie, f.ret_rec),
                   !.via = Put(@, f.movie,
                               IF f.via = "cache" THEN Get(@, f.movie, "cache")
                               ELSE f.via)]
    ELSE h

\* What thread t holds of activation f.  A Future keeps of a finished call
\* its result or its exception (future.result(), line 556), and here also how
\* the item's lookups ended; the caller's own activation is kept whole.
Held(t, f) ==
    IF t = Caller \/ f.pc # "done" THEN f
    ELSE [IdleFrame EXCEPT !.op = f.op, !.pc = f.pc, !.movie = f.movie,
                           !.ret_rec = f.ret_rec, !.exc = f.exc, !.sid = f.sid,
                           !.details = f.details, !.auth_failed = f.auth_failed]

\* The history follows the calls of the caller's own thread.
Observed(t, h) == IF t = Caller THEN h ELSE hist

Running == {t \in Futures : fr[t].pc \notin {"idle", "queued", "done"}}

(***************************************************************************)
(* The steps of a thread.                                                  *)
(***************************************************************************)
\* Lines 432-439: enrich_movie up to the call of search_movie.  A queued
\* future starts when the executor has a free worker.
EnrichMovieBegin(t) ==
    /\ \/ fr[t].pc = "enrich_movie"
       \/ fr[t].pc = "queued" /\ Cardinality(Running) < max_workers
    /\ LET f == fr[t]
           title == Get(f.movie, "title", <<>>)
           year == Get(f.movie, "year", None)
       IN  fr' = [fr EXCEPT ![t] =
                    IF title = <<>>
                    THEN Held(t, [f EXCEPT !.pc = "done", !.ret_rec = NoneRec])
                    ELSE WithPriorSearch([f EXCEPT !.pc = "search_cache"],
                                         hist, title, year)]
    /\ UNCHANGED <<cache, job, hist, now, last_request_time, rl, permits, pool, px>>

\* Lines 213-216: the cache lookup of search_movie.
SearchCacheLookup(t) ==
    /\ fr[t].pc = "search_cache"
    /\ LET f == fr[t]
           cached_id == _get_from_cache(cache, SearchKey(f.title, f.year))
           f2 == IF cached_id # None
                 THEN SearchReturns(f, cached_id, "cache")
                 ELSE [f EXCEPT !.pc = "search_req", !.attempts = 0]
       IN  /\ fr' = [fr EXCEPT ![t] = Held(t, f2)]
           /\ hist' = Observed(t, HistAfterEnrich(hist, f2))
    /\ UNCHANGED <<cache, job, now, last_request_time, rl, permits, pool, px>>

\* Lines 224-277: a query of search_movie, and the strategies after it.
SearchRequest(t) ==
    /\ fr[t].pc \in {"search_req", "search_req_no_year"}
    /\ \E outcome \in SearchOutcomes :
         LET e == SearchEffect(fr[t], cache, hist, outcome)
         IN  /\ fr' = [fr EXCEPT ![t] = Held(t, e.f)]
             /\ cache' = e.c
             /\ hist' = Observed(t, HistAfterEnrich(e.h, e.f))
    /\ UNCHANGED <<job, now, last_request_time, rl, permits, pool, px>>

\* Lines 291-294: the cache lookup of get_movie_details.
DetailsCacheLookup(t) ==
    /\ fr[t].pc = "details_cache"
    /\ LET f == fr[t]
           cached_details == GetDetailsFromCache(cache, DetailsKey(f.movie_id))
           f2 == IF cached_details # NoneRec
                 THEN DetailsReturns(f, cached_details, "cache")
                 ELSE [f EXCEPT !.pc = "details_req", !.attempts = 0]
       IN  /\ fr' = [fr EXCEPT ![t] = Held(t, f2)]
           /\ hist' = Observed(t, HistAfterEnrich(hist, f2))
    /\ UNCHANGED <<cache, job, now, last_request_time, rl, permits, pool, px>>

\* Lines 296-319: the request of get_movie_details, extraction and caching.
DetailsRequest(t) ==
    /\ fr[t].pc = "details_req"
    /\ \E outcome \in DetailsOutcomes(fr[t].movie_id) :
         LET e == DetailsEffect(fr[t], cache, hist, outcome)
         IN  /\ fr' = [fr EXCEPT ![t] = Held(t, e.f)]
             /\ cache' = e.c
             /\ hist' = Observed(t, HistAfterEnrich(e.h, e.f))
    /\ UNCHANGED <<job, now, last_request_time, rl, permits, pool, px>>

(***************************************************************************)
(* enrich_movies (lines 456-582).  job is the caller's activation:         *)
(*   "seq"       line 488, before item i + 1 of the sequential loop        *)
(*   "seq_wait"  line 496, enrich_movie is running in the caller           *)
(*   "submit"    line 537, before the batch that starts at item i + 1      *)
(*   "collect"   line 551, inside as_completed                             *)
(*   "done"      returned, or raised exc                                   *)
(* Future t of a batch runs item i + t.  log keeps, per item, how its      *)
(* lookups ended.                                                          *)
(***************************************************************************)
IdleJob ==
    [pc |-> "idle", movies |-> <<>>, parallel |-> FALSE, batch_size |-> 1,
     i |-> 0, enriched_movies |-> <<>>, processed |-> 0, collected |-> {},
     exc |-> NoExc, log |-> EmptyMap]

Total == Len(job.movies)

\* Variant: the batch ends where it starts.
BatchEndStuck == job.i

\* Line 538
BatchEnd == Min(job.i + job.batch_size, Total)
BatchFutures == 1..(BatchEnd - job.i)

CallerFree ==
    /\ job.pc \in {"idle", "done"}
    /\ fr[Caller].pc \in {"idle", "done"}

IdleFutures == [t \in Threads |-> IdleFrame]

LogEntry(f) ==
    [sid |-> f.sid, details |-> f.details, auth_failed |-> f.auth_failed]

\* Variant: whatever came back is appended, a None too.
AppendedUnchecked(enriched_movies, enriched) == Append(enriched_movies, enriched)

\* Lines 498-499 and 567-568: a record that came back is appended.
Appended(enriched_movies, enriched) ==
    IF enriched # NoneRec THEN Append(enriched_movies, enriched) ELSE enriched_movies

CallSearchMovie ==
    /\ CallerFree
    /\ \E title \in QueryTitles, year \in QueryYears :
         fr' = [IdleFutures EXCEPT ![Caller] = SearchCall(hist, title, year)]
    /\ job' = IdleJob
    /\ UNCHANGED <<cache, hist, now, last_request_time, rl, permits, pool, px>>

CallGetMovieDetails ==
    /\ CallerFree
    /\ \E movie_id \in Ids :
         fr' = [IdleFutures EXCEPT ![Caller] = DetailsCall(movie_id)]
    /\ job' = IdleJob
    /\ UNCHANGED <<cache, hist, now, last_request_time, rl, permits, pool, px>>

CallEnrichMovie ==
    /\ CallerFree
    /\ \E movie \in Items :
         fr' = [IdleFutures EXCEPT ![Caller] = EnrichCall(hist, movie, "enrich_movie")]
    /\ job' = IdleJob
    /\ UNCHANGED <<cache, hist, now, last_request_time, rl, permits, pool, px>>

\* Lines 477-509: the sequential path, taken when parallel is false or the
\* list has at most one item; batch_size is not read on it.
CallEnrichMoviesSequential ==
    /\ CallerFree
    /\ \E movies \in SeqsUpTo(Items, MaxMovies), parallel \in BOOLEAN :
         /\ ~(parallel /\ Len(movies) > 1)
         /\ job' = [IdleJob EXCEPT !.pc = "seq", !.movies = movies,
                                   !.parallel = parallel]
    /\ fr' = IdleFutures
    /\ UNCHANGED <<cache, hist, now, last_request_time, rl, permits, pool, px>>

\* Lines 477-484: the parallel path, taken for a list of more than one item.
CallEnrichMoviesParallel ==
    /\ CallerFree
    /\ \E movies \in SeqsUpTo(Items, MaxMovies), batch_size \in 1..MaxBatchSize :
         /\ Len(movies) > 1
         /\ job' = [IdleJob EXCEPT !.pc = "submit", !.movies = movies,
                                   !.parallel = TRUE, !.batch_size = batch_size]
    /\ fr' = IdleFutures
    /\ UNCHANGED <<cache, hist, now, last_request_time, rl, permits, pool, px>>

\* Lines 817-821
clear_cache ==
    /\ CallerFree
    /\ cache # EmptyMap
    /\ cache' = EmptyMap
    /\ hist' = EmptyHist
    /\ fr' = IdleFutures
    /\ job' = IdleJob
    /\ UNCHANGED <<now, last_request_time, rl, permits, pool, px>>

\* Line 496: the sequential loop calls enrich_movie in the caller's thread.
SeqStart ==
    /\ job.pc = "seq"
    /\ job.i < Total
    /\ fr' = [fr EXCEPT ![Caller] = EnrichCall(hist, job.movies[job.i + 1], "enrich_movie")]
    /\ job' = [job EXCEPT !.pc = "seq_wait"]
    /\ UNCHANGED <<cache, hist, now, last_request_time, rl, permits, pool, px>>

\* Lines 496-504: enrich_movie came back; an exception it raised leaves
\* enrich_movies, which has no handler on this path.
SeqCollect ==
    /\ job.pc = "seq_wait"
    /\ fr[Caller].pc = "done"
    /\ LET f == fr[Caller]
           logged == [job EXCEPT !.log = Put(@, job.i + 1, LogEntry(f)),
                                 !.processed = @ + 1]
       IN  job' = IF f.exc # NoExc
                  THEN [logged EXCEPT !.pc = "done", !.exc = f.exc]
                  ELSE [logged EXCEPT
                          !.pc = "seq", !.i = @ + 1,
                          !.enriched_movies = Appended(@, f.ret_rec)]
    /\ UNCHANGED <<cache, fr, hist, now, last_request_time, rl, permits, pool, px>>

\* Lines 537-548: the next batch is submitted to the executor.
SubmitBatch ==
    /\ job.pc = "submit"
    /\ job.i < Total
    /\ fr' = [t \in Threads |->
                IF t \in BatchFutures
                THEN EnrichCall(hist, job.movies[job.i + t], "queued")
                ELSE IdleFrame]
    /\ job' = [job EXCEPT !.pc = "collect", !.collected = {}]
    /\ UNCHANGED <<cache, hist, now, last_request_time, rl, permits, pool, px>>

\* Variant: the loop over as_completed ends with the first future.
FirstCompleted(collected) == TRUE

\* Line 551: the loop over as_completed ends when every future of the batch
\* has been handed over.
AllCompleted(collected) == collected = BatchFutures

\* Lines 551-577: as_completed hands over a finished future; future.result()
\* re-raises what the item raised, and except Exception swallows it.
Collect(t) ==
    /\ job.pc = "collect"
    /\ t \in BatchFutures \ job.collected
    /\ fr[t].pc = "done"
    /\ LET f == fr[t]
           last == AllCompleted(job.collected \cup {t})
       IN  job' = [job EXCEPT
                     !.log = Put(@, job.i + t, LogEntry(f)),
                     !.processed = @ + 1,
                     !.collected = @ \cup {t},
                     !.enriched_movies =
                         IF IsInstance(f.exc, "Exception") THEN @
                         ELSE Appended(@, f.ret_rec),
                     !.pc = IF last THEN "submit" ELSE "collect",
                     !.i = IF last THEN BatchEnd ELSE @]
    /\ UNCHANGED <<cache, fr, hist, now, last_request_time, rl, permits, pool, px>>

\* Lines 509 and 582: the loop is over.
EnrichMoviesReturn ==
    /\ job.pc \in {"seq", "submit"}
    /\ job.i >= Total
    /\ job' = [job EXCEPT !.pc = "done"]
    /\ fr' = IdleFutures
    /\ UNCHANGED <<cache, hist, now, last_request_time, rl, permits, pool, px>>

(***************************************************************************)
(* _wait_for_rate_limit (lines 66-73), called first by every attempt of    *)
(* _make_request, run by NumCallers pool workers.  Time is counted in      *)
(* ticks of 50 ms.  rl[w].pc is                                            *)
(*   "idle"   outside _make_request                                        *)
(*   "check"  line 68                                                      *)
(*   "sleep"  line 71, until rl[w].wake                                    *)
(*   "stamp"  line 73                                                      *)
(***************************************************************************)
min_request_interval == 2
Workers == 1..NumCallers

\* _make_request is entered.
RLEnter(w) ==
    /\ rl[w].pc = "idle"
    /\ Len(permits) + Cardinality({v \in Workers : rl[v].pc # "idle"}) < MaxPermits
    /\ rl' = [rl EXCEPT ![w].pc = "check"]
    /\ UNCHANGED <<cache, fr, job, hist, now, last_request_time, permits, pool, px>>

\* Lines 68-71: the check, which reads last_request_time and the clock.
RLCheck(w) ==
    /\ rl[w].pc = "check"
    /\ rl' = [rl EXCEPT ![w] =
                IF last_request_time # 0
                   /\ now - last_request_time < min_request_interval
                THEN [pc |-> "sleep",
                      wake |-> now + (min_request_interval - (now - last_request_time))]
                ELSE [pc |-> "stamp", wake |-> 0]]
    /\ UNCHANGED <<cache, fr, job, hist, now, last_request_time, permits, pool, px>>

\* Line 71: time.sleep returns once the time asked for has passed.
RLWake(w) ==
    /\ rl[w].pc = "sleep"
    /\ now >= rl[w].wake
    /\ rl' = [rl EXCEPT ![w] = [pc |-> "stamp", wake |-> 0]]
    /\ UNCHANGED <<cache, fr, job, hist, now, last_request_time, permits, pool, px>>

\* Line 73, after which the request goes out (line 99).
RLStamp(w) ==
    /\ rl[w].pc = "stamp"
    /\ last_request_time' = now
    /\ permits' = Append(permits, now)
    /\ rl' = [rl EXCEPT ![w] = [pc |-> "idle", wake |-> 0]]
    /\ UNCHANGED <<cache, fr, job, hist, now, pool, px>>

Tick ==
    /\ now < MaxTime
    /\ now' = now + 1
    /\ UNCHANGED <<cache, fr, job, hist, last_request_time, rl, permits, pool, px>>

(***************************************************************************)
(* build_candidate_pool (lines 702-815).  pool is the caller's activation: *)
(*   "seed"      line 730, before watched item i + 1                       *)
(*   "similar"   line 739, the request of get_similar_movies               *)
(*   "recs"      line 746, the request of get_movie_recommendations        *)
(*   "truncate"  line 757                                                  *)
(*   "submit"    line 776, before the batch that starts at batch_start + 1 *)
(*   "collect"   line 787, inside as_completed                             *)
(*   "done"      returned, or raised exc                                   *)
(* queried, after and offered are history: the neighbour requests issued,  *)
(* the number of candidates accumulated when a seed's iteration ended, and *)
(* the ids the neighbour lists held.  repeated holds the ids a list        *)
(* offered when an earlier list had them accumulated, and fetched counts,  *)
(* per id, the detail requests issued.                                     *)
(***************************************************************************)
pool_batch_size == 10

\* Watched items as enrich_movies returns them; tmdb_id may be missing.
WatchedItems ==
    { [tmdb_id |-> 1, title |-> "W"],
      [tmdb_id |-> 2, title |-> "W"],
      [title |-> "W"] }

\* Results of /movie/{id}/similar and /movie/{id}/recommendations.
NeighbourResults ==
    { [id |-> 1, title |-> "N", release_date |-> DateOf(Y1972)],
      [id |-> 2, title |-> "N", release_date |-> DateOf(Y1994)],
      [id |-> 4, title |-> "N"],
      [id |-> 2, release_date |-> DateOf(Y1994)] }

WatchedLists == SeqsUpTo(WatchedItems, MaxWatched)

NeighbourBodies ==
    {[results |-> r] : r \in SeqsUpTo(NeighbourResults, MaxNeighbours)}
        \cup {[page |-> 1]}
NeighbourOutcomes == {Response(200, b) : b \in NeighbourBodies} \cup Failures

CandidatesPerMovie == {1, 2, 4}
MinRatings == {None, 0, 8, 9}

\* seq[:n] for n >= 0
Take(seq, n) == SubSeq(seq, 1, Min(n, Len(seq)))

\* Lines 601-605 and 630-634: the entry built from one result.
NeighbourEntry(movie) ==
    [tmdb_id |-> movie.id, title |-> movie.title,
     year |-> IF Get(movie, "release_date", <<>>) # <<>>
              THEN ParseInt(First4(movie.release_date)) ELSE None]

\* Lines 597-607 and 626-636: the list built from the body of a 200 answer.
NeighbourList(data, max_results) ==
    LET results == Take(Get(data, "results", <<>>), max_results)
    IN  IF \E k \in 1..Len(results) : {"id", "title"} \ DOMAIN results[k] # {}
        THEN Raise("KeyError")
        ELSE Ret([k \in 1..Len(results) |-> NeighbourEntry(results[k])])

\* Lines 609 and 638: except (TMDBAPIError, MovieNotFoundError)
NeighbourCatches(e) ==
    IsInstance(e, "TMDBAPIError") \/ IsInstance(e, "MovieNotFoundError")

\* Line 726
WatchedIds(watched_movies) ==
    {Get(watched_movies[k], "tmdb_id", None) :
        k \in {j \in 1..Len(watched_movies) :
                  Truthy(Get(watched_movies[j], "tmdb_id", None))}}

\* Variant: only watched ids are skipped.
IsNewIgnoringAccumulated(tmdb_id, watched_ids, candidate_ids) ==
    tmdb_id \notin watched_ids

\* Variant: only candidates seen before are skipped.
IsNewIgnoringWatched(tmdb_id, watched_ids, candidate_ids) ==
    tmdb_id \notin candidate_ids

\* Lines 741 and 748
IsNewCandidate(tmdb_id, watched_ids, candidate_ids) ==
    tmdb_id \notin watched_ids /\ tmdb_id \notin candidate_ids

\* Lines 740-743 and 747-750: the loop over the entries of one list.
RECURSIVE AddCandidates(_, _, _, _)
AddCandidates(entries, k, watched_ids, acc) ==
    IF k > Len(entries) THEN acc
    ELSE AddCandidates(entries, k + 1, watched_ids,
            IF IsNewCandidate(entries[k].tmdb_id, watched_ids, acc.candidate_ids)
            THEN [candidate_ids |-> acc.candidate_ids \cup {entries[k].tmdb_id},
                  candidate_movies |-> Append(acc.candidate_movies, entries[k])]
            ELSE acc)

\* Variant: the loop over the seeds never stops early.
NeverEnough(candidate_movies, max_candidates) == FALSE

\* Line 753
Enough(candidate_movies, max_candidates) == Len(candidate_movies) >= max_candidates

\* Variant: the list is kept whole.
Untruncated(candidate_movies, max_candidates) == candidate_movies

\* Variant: the cut keeps one candidate less.
TruncatedShort(candidate_movies, max_candidates) ==
    Take(candidate_movies, max_candidates - 1)

\* Line 757, for max_candidates >= 0
Truncated(candidate_movies, max_candidates) == Take(candidate_movies, max_candidates)

\* Variant: every record that came back is kept.
KeptUnfiltered(details, min_rating) == TRUE

\* Lines 797-804: whether a record that came back is kept.
Kept(details, min_rating) ==
    IF Truthy(min_rating) /\ min_rating > 0
    THEN LET movie_rating == Get(details, "rating", 0)
         IN  Truthy(movie_rating) /\ movie_rating >= min_rating
    ELSE TRUE

\* The element of a set of one element.
Only(S) == CHOOSE x \in S : TRUE

\* get_movie_details (lines 291-319) run to its end by a future, every
\* attempt of its request meeting the same outcome.
RECURSIVE FetchDetails(_, _, _)
FetchDetails(f, c, outcome) ==
    Only({IF e.f.pc = "done" THEN e ELSE FetchDetails(e.f, e.c, outcome) :
            e \in {DetailsEffect(f, c, hist, outcome)}})

get_movie_details(c, movie_id, outcome) ==
    LET f == DetailsCall(movie_id)
        cached_details == GetDetailsFromCache(c, DetailsKey(movie_id))
    IN  IF cached_details # NoneRec
        THEN [f |-> DetailsReturns(f, cached_details, "cache"), c |-> c]
        ELSE FetchDetails([f EXCEPT !.pc = "details_req"], c, outcome)

IdlePool ==
    [pc |-> "idle", watched_movies |-> <<>>, candidates_per_movie |-> 0,
     max_candidates |-> 0, min_rating |-> None, watched_ids |-> {},
     i |-> 0, attempts |-> 0, candidate_ids |-> {}, candidate_movies |-> <<>>,
     batch_start |-> 0, collected |-> {}, enriched_candidates |-> <<>>,
     filtered_count |-> 0, processed |-> 0, exc |-> NoExc,
     queried |-> <<>>, after |-> EmptyMap, offered |-> {}, repeated |-> {},
     fetched |-> EmptyMap]

PoolBatchEnd == Min(pool.batch_start + pool_batch_size, Len(pool.candidate_movies))
PoolBatch == (pool.batch_start + 1)..PoolBatchEnd

\* Lines 723-728, on a client that has not been used before.
CallBuildCandidatePool ==
    /\ pool.pc = "idle"
    /\ \E watched_movies \in WatchedLists,
          candidates_per_movie \in CandidatesPerMovie,
          max_candidates \in 0..MaxCandidates,
          min_rating \in MinRatings :
         pool' = [IdlePool EXCEPT
                    !.pc = "seed", !.watched_movies = watched_movies,
                    !.candidates_per_movie = candidates_per_movie,
                    !.max_candidates = max_candidates, !.min_rating = min_rating,
                    !.watched_ids = WatchedIds(watched_movies)]
    /\ UNCHANGED <<cache, fr, job, hist, now, last_request_time, rl, permits, px>>

\* Lines 730-733: the next watched item; one without an id is skipped.
PoolNextSeed ==
    /\ pool.pc = "seed"
    /\ pool' =
         IF pool.i >= Len(pool.watched_movies)
         THEN [pool EXCEPT !.pc = "truncate"]
         ELSE IF ~Truthy(Get(pool.watched_movies[pool.i + 1], "tmdb_id", None))
         THEN [pool EXCEPT !.i = @ + 1]
         ELSE [pool EXCEPT !.pc = "similar", !.attempts = 0]
    /\ UNCHANGED <<cache, fr, job, hist, now, last_request_time, rl, permits, px>>

\* The activation after one HTTP attempt of a neighbour request from pc,
\* which goes on at pc2 when the list is there.
AfterNeighbours(pc2, endpoint, outcome) ==
    LET tr == Transport(pool.attempts + 1, outcome)
        asked == [pool EXCEPT
                    !.attempts = @ + 1,
                    !.queried = IF pool.attempts = 0
                                THEN Append(@, [seed |-> pool.i + 1, endpoint |-> endpoint])
                                ELSE @]
        list == IF tr.act = "raise"
                THEN IF NeighbourCatches(tr.exc) THEN Ret(<<>>) ELSE Raise(tr.exc)
                ELSE NeighbourList(tr.json, pool.candidates_per_movie \div 2)
    IN  IF tr.act = "retry" THEN asked
        ELSE IF list.raise # NoExc
        THEN [asked EXCEPT !.pc = "done", !.exc = list.raise]
        ELSE LET acc == AddCandidates(list.value, 1, pool.watched_ids,
                            [candidate_ids |-> pool.candidate_ids,
                             candidate_movies |-> pool.candidate_movies])
             IN  [asked EXCEPT !.pc = pc2, !.attempts = 0,
                               !.offered = @ \cup {list.value[k].tmdb_id :
                                                      k \in 1..Len(list.value)},
                               !.repeated = @ \cup
                                   {list.value[k].tmdb_id :
                                       k \in {j \in 1..Len(list.value) :
                                                 list.value[j].tmdb_id
                                                     \in pool.candidate_ids}},
                               !.candidate_ids = acc.candidate_ids,
                               !.candidate_movies = acc.candidate_movies]

\* Lines 739-743: get_similar_movies, called in the caller's thread.
PoolSimilar ==
    /\ pool.pc = "similar"
    /\ \E outcome \in NeighbourOutcomes :
         \E p \in {AfterNeighbours("recs", "similar", outcome)} : pool' = p
    /\ UNCHANGED <<cache, fr, job, hist, now, last_request_time, rl, permits, px>>

\* Lines 746-754: get_movie_recommendations, called in the caller's thread,
\* and the test that ends the loop.
PoolRecommendations ==
    /\ pool.pc = "recs"
    /\ \E outcome \in NeighbourOutcomes :
         \E p \in {AfterNeighbours("seed", "recommendations", outcome)} :
             pool' =
               IF p.pc # "seed" THEN p
               ELSE LET q == [p EXCEPT !.after = Put(@, p.i + 1, Len(p.candidate_movies))]
                    IN  IF Enough(q.candidate_movies, q.max_candidates)
                        THEN [q EXCEPT !.pc = "truncate"]
                        ELSE [q EXCEPT !.i = @ + 1]
    /\ UNCHANGED <<cache, fr, job, hist, now, last_request_time, rl, permits, px>>

\* Lines 757-773
PoolTruncate ==
    /\ pool.pc = "truncate"
    /\ pool' = [pool EXCEPT
                  !.pc = "submit",
                  !.candidate_movies = Truncated(@, pool.max_candidates),
                  !.batch_start = 0]
    /\ UNCHANGED <<cache, fr, job, hist, now, last_request_time, rl, permits, px>>

\* Lines 776-784: the next batch is submitted to the executor.
PoolSubmitBatch ==
    /\ pool.pc = "submit"
    /\ pool.batch_start < Len(pool.candidate_movies)
    /\ pool' = [pool EXCEPT !.pc = "collect", !.collected = {}]
    /\ UNCHANGED <<cache, fr, job, hist, now, last_request_time, rl, permits, px>>

\* Lines 783 and 787-807: the future of candidate k runs get_movie_details
\* and as_completed hands it over; except Exception swallows what it raised.
PoolCollect(k) ==
    /\ pool.pc = "collect"
    /\ k \in PoolBatch \ pool.collected
    /\ LET tmdb_id == pool.candidate_movies[k].tmdb_id
       IN  \E outcome \in DetailsOutcomes(tmdb_id) :
           \E e \in {get_movie_details(cache, tmdb_id, outcome)} :
             LET details == e.f.ret_rec
                 came == e.f.exc = NoExc /\ details # NoneRec
                 keep == came /\ Kept(details, pool.min_rating)
                 last == pool.collected \cup {k} = PoolBatch
             IN  /\ cache' = e.c
                 /\ pool' = [pool EXCEPT
                       !.processed = @ + 1,
                       !.collected = @ \cup {k},
                       !.fetched = Put(@, tmdb_id, Get(@, tmdb_id, 0) + e.f.ndetail),
                       !.enriched_candidates = IF keep THEN Append(@, details) ELSE @,
                       !.filtered_count = IF came /\ ~keep THEN @ + 1 ELSE @,
                       !.pc = IF last THEN "submit" ELSE "collect",
                       !.batch_start = IF last THEN PoolBatchEnd ELSE @]
    /\ UNCHANGED <<fr, job, hist, now, last_request_time, rl, permits, px>>

\* Line 815
PoolReturn ==
    /\ pool.pc = "submit"
    /\ pool.batch_start >= Len(pool.candidate_movies)
    /\ pool' = [pool EXCEPT !.pc = "done"]
    /\ UNCHANGED <<cache, fr, job, hist, now, last_request_time, rl, permits, px>>

(***************************************************************************)
(* Pure functions applied on their own.  px is the application:            *)
(*   "idle"        nothing applied yet                                     *)
(*   "normalized"  _normalize_title applied to title, and to its result    *)
(*   "resolved"    the strategies of search_movie applied to the answer    *)
(*                 of a query without a year                               *)
(*   "searched"    search_movie with a year run on an empty cache, its     *)
(*                 queries answered with results and results_no_year       *)
(*   "matched"     _fuzzy_match_title applied to results                   *)
(***************************************************************************)
IdlePx == [pc |-> "idle"]

TitleChars == {"A", "a", "n", " ", "!"}
TitleStrings == SeqsUpTo(TitleChars, MaxTitleLen)

NormalizeTwice ==
    /\ px.pc = "idle"
    /\ \E title \in TitleStrings :
         px' = [pc |-> "normalized", title |-> title,
                once |-> _normalize_title(title),
                twice |-> _normalize_title(_normalize_title(title))]
    /\ UNCHANGED <<cache, fr, job, hist, now, last_request_time, rl, permits, pool>>

FuzzyTitles == {T_TheUp, T_UPbang, T_Ups}
FuzzyResults ==
    { SearchResult(1, T_Up, DateOf(Y1972)),
      SearchResult(2, T_UPbang, DateOf(Y1972)),
      SearchResult(3, T_Ups, DateOf(Y1994)),
      SearchResult(4, T_Xy, DateOf(Y1994)) }
ResultTails == SeqsUpTo(FuzzyResults, MaxResults)

\* n results that resemble no query.
Fillers(n) == [k \in 1..n |-> SearchResult(4, T_Xy, DateOf(Y1994))]

\* Lines 225-273 for a query without a year that was answered with results.
ResolveWithoutYear ==
    /\ px.pc = "idle"
    /\ \E title \in FuzzyTitles, n \in {0, TopResults - 1}, tail \in ResultTails :
         \E results \in {Fillers(n) \o tail} :
           px' = [pc |-> "resolved", title |-> title, results |-> results,
                  st |-> AfterFirstQuery(title, None, [results |-> results])]
    /\ UNCHANGED <<cache, fr, job, hist, now, last_request_time, rl, permits, pool>>

FuzzyYears == {Y1972, Y1994}
FuzzyBodies == {[results |-> r] : r \in ResultTails} \cup {[page |-> 1]}

\* Lines 213-277 for a query with a year on an empty cache: the year-qualified
\* query is answered with data and the title-only one, when the code issues
\* it (second), with data_no_year.
SearchWithYear ==
    /\ px.pc = "idle"
    /\ \E title \in FuzzyTitles, year \in FuzzyYears,
          data \in FuzzyBodies, data_no_year \in FuzzyBodies :
         \E e1 \in {SearchEffect([SearchCall(EmptyHist, title, year)
                                    EXCEPT !.pc = "search_req"],
                                 EmptyMap, EmptyHist, Response(200, data))} :
         \E second \in {e1.f.pc = "search_req_no_year"} :
         \E e2 \in {IF second
                    THEN SearchEffect(e1.f, e1.c, e1.h, Response(200, data_no_year))
                    ELSE e1} :
           px' = [pc |-> "searched", title |-> title, year |-> year,
                  results |-> Get(data, "results", <<>>),
                  second |-> second,
                  results_no_year |-> IF second
                                      THEN Get(data_no_year, "results", <<>>)
                                      ELSE <<>>,
                  f |-> e2.f, c |-> e2.c]
    /\ UNCHANGED <<cache, fr, job, hist, now, last_request_time, rl, permits, pool>>

MatchYears == {None, Y1972, Y1994}
Thresholds == {LowerThreshold, DefaultThreshold}

\* Lines 170-199 applied to a list of results.
FuzzyMatch ==
    /\ px.pc = "idle"
    /\ \E search_title \in FuzzyTitles, year \in MatchYears,
          threshold \in Thresholds, n \in {0, TopResults - 1}, tail \in ResultTails :
         \E results \in {Fillers(n) \o tail} :
           px' = [pc |-> "matched", title |-> search_title, year |-> year,
                  threshold |-> threshold, results |-> results,
                  ret |-> _fuzzy_match_title(search_title, results, year, threshold)]
    /\ UNCHANGED <<cache, fr, job, hist, now, last_request_time, rl, permits, pool>>

(***************************************************************************)
(* The specifications.                                                     *)
(***************************************************************************)
Init ==
    /\ cache = EmptyMap
    /\ fr = IdleFutures
    /\ job = IdleJob
    /\ hist = EmptyHist
    /\ now = 1
    /\ last_request_time = 0
    /\ rl = [w \in Workers |-> [pc |-> "idle", wake |-> 0]]
    /\ permits = <<>>
    /\ pool = IdlePool
    /\ px = IdlePx

Step(t) ==
    \/ EnrichMovieBegin(t)
    \/ SearchCacheLookup(t)
    \/ SearchRequest(t)
    \/ DetailsCacheLookup(t)
    \/ DetailsRequest(t)

\* The client, used by one caller, one operation after the other.
Next ==
    \/ CallSearchMovie
    \/ CallGetMovieDetails
    \/ CallEnrichMovie
    \/ CallEnrichMoviesSequential
    \/ clear_cache
    \/ SeqStart
    \/ SeqCollect
    \/ EnrichMoviesReturn
    \/ Step(Caller)

Spec == Init /\ [][Next]_vars

\* enrich_movies on its parallel path: the caller and the futures of a batch.
NextPar ==
    \/ CallEnrichMoviesParallel
    \/ SubmitBatch
    \/ \E t \in Futures : Collect(t)
    \/ EnrichMoviesReturn
    \/ \E t \in Futures : Step(t)

SpecPar == Init /\ [][NextPar]_vars

\* Line 483: the shortest list that takes the parallel path.
MinParallel == 2

\* One call of enrich_movies on its parallel path, on a client not used
\* before, for a list that needs more than one batch or is the shortest one.
CallEnrichMoviesParallelOnce ==
    /\ job.pc = "idle"
    /\ CallEnrichMoviesParallel
    /\ \/ job'.batch_size < Len(job'.movies)
       \/ Len(job'.movies) = MinParallel

NextLive ==
    \/ CallEnrichMoviesParallelOnce
    \/ SubmitBatch
    \/ \E t \in Futures : Collect(t)
    \/ EnrichMoviesReturn
    \/ \E t \in Futures : Step(t)

\* The caller's thread runs, a worker of the executor runs the item it took,
\* every HTTP attempt ends (Config.REQUEST_TIMEOUT, line 99), and
\* as_completed hands over a future that has finished.
SpecLive ==
    /\ Init
    /\ [][NextLive]_vars
    /\ WF_vars(SubmitBatch)
    /\ WF_vars(EnrichMoviesReturn)
    /\ \A t \in Futures : WF_vars(Collect(t)) /\ WF_vars(Step(t))

\* The rate limiter under concurrent callers.
NextRL ==
    \/ \E w \in Workers : RLEnter(w)
    \/ \E w \in Workers : RLCheck(w)
    \/ \E w \in Workers : RLWake(w)
    \/ \E w \in Workers : RLStamp(w)
    \/ Tick

SpecRL == Init /\ [][NextRL]_vars

\* build_candidate_pool: the caller, and the futures of a batch.
NextPool ==
    \/ CallBuildCandidatePool
    \/ PoolNextSeed
    \/ PoolSimilar
    \/ PoolRecommendations
    \/ PoolTruncate
    \/ PoolSubmitBatch
    \/ \E k \in 1..Len(pool.candidate_movies) : PoolCollect(k)
    \/ PoolReturn

SpecPool == Init /\ [][NextPool]_vars

\* The pure functions on their own.
NextPure ==
    \/ NormalizeTwice
    \/ ResolveWithoutYear
    \/ SearchWithYear
    \/ FuzzyMatch

SpecPure == Init /\ [][NextPure]_vars

(***************************************************************************)
(* Properties.                                                             *)
(***************************************************************************)
Last(q) == q[Len(q)]
StatusNames == {"401", "404", "429", "other_status"}

\* The keys of a detail record (lines 395-420).
DetailKeys ==
    {"tmdb_id", "title", "original_title", "year", "release_date", "overview",
     "genres", "directors", "cast", "runtime", "rating", "vote_average",
     "vote_count", "popularity", "keywords", "certification", "poster_url",
     "poster_path", "backdrop_path", "tagline", "status", "budget", "revenue",
     "imdb_id"}

\* C1: a request whose attempts all time out is attempted exactly 3 times and
\* then raises; a request whose first attempt timed out gets a second attempt
\* (so that a success there is returned after exactly 2 attempts).
C1_TimeoutsRetried ==
    \A t \in Threads :
        LET f == fr[t]
        IN  (f.http # <<>> /\ \A i \in 1..Len(f.http) : f.http[i] = "Timeout")
            => IF Len(f.http) < StopAfterAttempt
               THEN f.mr = "pending"
               ELSE /\ Len(f.http) = StopAfterAttempt
                    /\ f.mr \notin {"pending", "returned", "none"}

\* C2: a request answered with status 401, 404, 429 or another non-200 status
\* has ended after exactly one HTTP attempt by raising the typed error of that
\* status to its caller.
C2_StatusErrorsNotRetried ==
    \A t \in Threads :
        LET f == fr[t]
        IN  (f.http # <<>> /\ Last(f.http) \in StatusNames)
            => /\ Len(f.http) = 1
               /\ f.mr = IF Last(f.http) = "404" THEN "MovieNotFoundError"
                         ELSE "TMDBAPIError"

C2_Witness ==
    \E t \in Threads :
        /\ fr[t].http = <<"404">>
        /\ fr[t].mr = "MovieNotFoundError"
        /\ fr[t].pc = "done"
        /\ fr[t].exc = "MovieNotFoundError"

\* C3: a search_movie call for a query that an earlier call resolved to an
\* identity (the cache not cleared since) issues no request and returns that
\* same identity.
C3_RepeatedResolution ==
    \A t \in Threads :
        LET f == fr[t]
        IN  f.prior_id # None
            => /\ f.nsearch = 0
               /\ f.pc \notin {"search_req", "search_req_no_year"}
               /\ (f.via # "none" => f.sid = f.prior_id /\ f.via = "cache")
               /\ (f.op = "search_movie" /\ f.pc = "done"
                     => f.exc = NoExc /\ f.ret_id = f.prior_id)

C3_Witness ==
    \E t \in Threads :
        /\ fr[t].op = "search_movie"
        /\ fr[t].pc = "done"
        /\ fr[t].prior_id = 2
        /\ fr[t].ret_id = 2
        /\ fr[t].nsearch = 0

\* C4: a search_movie call for a query whose last completed resolution found
\* no match (the cache not cleared since) issues no search request and is
\* answered absent from the cache.
C4_AbsentReplayed ==
    \A t \in Threads :
        LET f == fr[t]
        IN  f.prior_absent
            => /\ f.nsearch = 0
               /\ f.pc \notin {"search_req", "search_req_no_year"}
               /\ (f.via # "none" => f.sid = None /\ f.via = "cache")

\* C5: an enrichment that resolved its item by strategy 1 issued exactly one
\* search request and cached the identity, issued exactly one detail request
\* when it had to ask for the details, and cached the detail record it got;
\* an enrichment of an item that was enriched before issues no request and
\* returns a record equal to the earlier one.
C5_EnrichOnceThenCached ==
    \A t \in Threads :
        LET f == fr[t]
        IN  (f.op = "enrich_movie" /\ f.pc = "done")
            => /\ f.via = "strategy1"
                    => /\ f.nsearch = 1
                       /\ Truthy(f.sid)
                       /\ _get_from_cache(cache, SearchKey(f.title, f.year)) = f.sid
                       /\ f.dvia \in {"request", "error"} => f.ndetail = 1
                       /\ (f.dvia = "request" /\ f.ret_rec # NoneRec)
                            => GetDetailsFromCache(cache, DetailsKey(f.sid)) = f.details
               /\ f.prior_rec # NoneRec
                    => /\ f.nsearch = 0
                       /\ f.ndetail = 0
                       /\ f.exc = NoExc
                       /\ f.ret_rec = f.prior_rec

C5_Witness ==
    \E t \in Threads :
        /\ fr[t].op = "enrich_movie"
        /\ fr[t].pc = "done"
        /\ fr[t].prior_via = "strategy1"
        /\ fr[t].prior_rec # NoneRec
        /\ fr[t].ret_rec = fr[t].prior_rec
        /\ fr[t].nsearch = 0
        /\ fr[t].ndetail = 0

\* C6: enrich_movies returns normally whatever happened to its items.
C6_NeverAborts == job.pc = "done" => job.exc = NoExc

\* The items of the list whose resolution and detail fetch both succeeded.
Succeeded ==
    {i \in DOMAIN job.log :
        Truthy(job.log[i].sid) /\ job.log[i].details # NoneRec}
Expected(i) == Merge(job.movies[i], job.log[i].details)

\* C7: the list enrich_movies returns holds exactly one enriched record for
\* each item whose resolution and detail fetch succeeded, and nothing else.
C7_ExactlyTheResolvable ==
    (job.pc = "done" /\ job.exc = NoExc)
    => /\ DOMAIN job.log = 1..Len(job.movies)
       /\ Len(job.enriched_movies) = Cardinality(Succeeded)
       /\ \A r \in Range(job.enriched_movies) \cup {Expected(i) : i \in Succeeded} :
            Cardinality({k \in 1..Len(job.enriched_movies) : job.enriched_movies[k] = r})
                = Cardinality({i \in Succeeded : Expected(i) = r})

C7_Witness ==
    /\ job.pc = "done"
    /\ job.parallel
    /\ Len(job.movies) = 2
    /\ Cardinality(Succeeded) = 1
    /\ Len(job.enriched_movies) = 1
    /\ \E i \in DOMAIN job.log :
         Get(job.movies[i], "title", <<>>) # <<>> /\ job.log[i].sid = None

\* C8: an operation that met a 401 ends by raising an error to its caller.
C8_AuthFailurePropagates ==
    /\ \A t \in Threads :
         (fr[t].pc = "done" /\ fr[t].auth_failed) => fr[t].exc # NoExc
    /\ (job.pc = "done" /\ \E i \in DOMAIN job.log : job.log[i].auth_failed)
         => job.exc # NoExc

C10_RequestsSpaced ==
    \A i, j \in 1..Len(permits) :
        i < j => permits[j] - permits[i] >= min_request_interval

\* The ids of the watched input items.
WatchedIdSet ==
    {pool.watched_movies[j].tmdb_id :
        j \in {i \in 1..Len(pool.watched_movies) :
                 "tmdb_id" \in DOMAIN pool.watched_movies[i]}}

\* C11: no record build_candidate_pool collects has the tmdb_id of a watched
\* input item.
C11_PoolDisjointFromWatched ==
    \A k \in 1..Len(pool.enriched_candidates) :
        pool.enriched_candidates[k].tmdb_id \notin WatchedIdSet

C11_Witness ==
    /\ pool.pc = "done"
    /\ pool.exc = NoExc
    /\ pool.offered \cap WatchedIdSet # {}
    /\ Len(pool.enriched_candidates) >= 1

\* C12: build_candidate_pool never holds more collected records than
\* max_candidates.
C12_PoolBounded == Len(pool.enriched_candidates) <= pool.max_candidates

C12_Witness ==
    /\ pool.pc = "done"
    /\ pool.max_candidates = 1
    /\ \E i \in DOMAIN pool.after : pool.after[i] > pool.max_candidates
    /\ Len(pool.enriched_candidates) = 1

\* C13 as stated: whenever min_rating is not None, every collected record has
\* a vote_average, and it is at least min_rating.
C13_RatedWheneverSet ==
    pool.min_rating # None
    => \A k \in 1..Len(pool.enriched_candidates) :
         /\ pool.enriched_candidates[k].vote_average # None
         /\ pool.enriched_candidates[k].vote_average >= pool.min_rating

\* C13: whenever min_rating is positive, every collected record has a
\* vote_average, and it is at least min_rating; with min_rating None or 0 no
\* record that came back is filtered out.
C13_RatedWhenPositive ==
    /\ (pool.min_rating # None /\ pool.min_rating > 0)
         => \A k \in 1..Len(pool.enriched_candidates) :
              /\ pool.enriched_candidates[k].vote_average # None
              /\ pool.enriched_candidates[k].vote_average >= pool.min_rating
    /\ (pool.min_rating = None \/ pool.min_rating = 0) => pool.filtered_count = 0

C13_Witness ==
    /\ pool.pc = "done"
    /\ pool.min_rating = 8
    /\ pool.filtered_count >= 1
    /\ Len(pool.enriched_candidates) >= 1
    /\ pool.enriched_candidates[1].vote_average = 8

\* C14: normalizing a normalized title changes nothing.
C14_NormalizeIdempotent == px.pc = "normalized" => px.twice = px.once

\* Result k of the answer has the query's normalized title.
SameNormalized(k) ==
    _normalize_title(px.results[k].title) = _normalize_title(px.title)

\* C15: when a result among the first TopResults has the normalized title of
\* a query without a year, every such result scores exactly 100 and the
\* resolution stores, by the fuzzy strategy 3, the id of a result with the
\* query's normalized title.
C15_SelfMatch ==
    (/\ px.pc = "resolved"
     /\ \E k \in 1..Min(TopResults, Len(px.results)) : SameNormalized(k))
    => /\ \A k \in 1..Len(px.results) :
            SameNormalized(k)
            => LET score == FuzzyScore(_normalize_title(px.title), px.results[k], None)
               IN  score.n = 100 * score.d /\ FracGeInt(score, DefaultThreshold)
       /\ px.st.raise = NoExc
       /\ px.st.how = "fuzzy"
       /\ px.st.store
       /\ \E k \in 1..Len(px.results) :
            px.results[k].id = px.st.value /\ SameNormalized(k)

C15_Witness ==
    /\ px.pc = "resolved"
    /\ px.title = T_TheUp
    /\ Len(px.results) = TopResults
    /\ px.results[1].title = T_Xy
    /\ px.results[TopResults].title = T_UPbang
    /\ px.st.how = "fuzzy"
    /\ px.st.value = 2

\* C16: the record enrich_movie returns has the keys of the item and of the
\* detail record and no other, every key of the detail record with the
\* detail record's value, every other key with the item's value.
C16_ShallowMerge ==
    \A t \in Threads :
        LET f == fr[t]
        IN  (f.op = "enrich_movie" /\ f.pc = "done" /\ f.ret_rec # NoneRec)
            => /\ DOMAIN f.ret_rec = DOMAIN f.movie \cup DOMAIN f.details
               /\ \A k \in DOMAIN f.details : f.ret_rec[k] = f.details[k]
               /\ \A k \in DOMAIN f.movie \ DOMAIN f.details :
                    f.ret_rec[k] = f.movie[k]

C16_Witness ==
    \E t \in Threads :
        /\ fr[t].op = "enrich_movie"
        /\ fr[t].pc = "done"
        /\ fr[t].ret_rec # NoneRec
        /\ fr[t].movie.title = T_TheUp
        /\ fr[t].movie.year = Y1972
        /\ fr[t].ret_rec.slug = "up"
        /\ fr[t].ret_rec.title = NoneStr
        /\ fr[t].ret_rec.year = None

\* Thread t has found no entry for its query and is asking the catalog.
Asking(t) == fr[t].pc \in {"search_req", "search_req_no_year"}

\* C17: no two pool workers ask the catalog for the same (title, year) at
\* the same time.
C17_OneRequestPerKey ==
    \A t1, t2 \in Futures :
        (t1 # t2 /\ Asking(t1) /\ Asking(t2))
        => SearchKey(fr[t1].title, fr[t1].year) # SearchKey(fr[t2].title, fr[t2].year)

\* The futures of enrich_movies that were submitted and have not completed.
InFlight == {t \in Futures : fr[t].pc \notin {"idle", "done"}}

C19_CallerIssuesNoRequest ==
    job.pc \notin {"idle", "done"}
    => /\ fr[Caller].pc \notin {"search_req", "search_req_no_year", "details_req"}
       /\ fr[Caller].nsearch = 0
       /\ fr[Caller].ndetail = 0

\* C20: the neighbour requests are issued in the order of the watched list,
\* similar before recommendations, and none is issued for a seed after one
\* whose iteration ended with at least max_candidates candidates.
C20_StopsAtCrossing ==
    /\ \A a, b \in 1..Len(pool.queried) :
         a < b => \/ pool.queried[a].seed < pool.queried[b].seed
                  \/ /\ pool.queried[a].seed = pool.queried[b].seed
                     /\ pool.queried[a].endpoint = "similar"
                     /\ pool.queried[b].endpoint = "recommendations"
    /\ \A a \in 1..Len(pool.queried) :
         \A j \in DOMAIN pool.after :
            j < pool.queried[a].seed => pool.after[j] < pool.max_candidates

C20_Witness ==
    /\ pool.pc = "done"
    /\ Len(pool.watched_movies) = 2
    /\ WatchedIdSet = {1, 2}
    /\ pool.max_candidates = 1
    /\ 1 \in DOMAIN pool.after
    /\ pool.after[1] >= 1
    /\ \A a \in 1..Len(pool.queried) : pool.queried[a].seed = 1

\* The candidates accumulated when the loop over the seeds ended.
Accumulated ==
    IF DOMAIN pool.after = {} THEN 0
    ELSE pool.after[CHOOSE i \in DOMAIN pool.after :
                        \A j \in DOMAIN pool.after : j <= i]

CandidateIdSet ==
    {pool.candidate_movies[k].tmdb_id : k \in 1..Len(pool.candidate_movies)}

\* C21: in build_candidate_pool no neighbour request is issued once a detail
\* request has been issued, detail requests go only to candidates of the list
\* cut to max_candidates, and when the call returns each candidate of that
\* list, the ones the rating filter dropped included, has had exactly one
\* detail request.
C21_FilterAfterCutoff ==
    [][/\ pool.fetched # EmptyMap => pool'.queried = pool.queried
       /\ pool'.pc \in {"submit", "collect", "done"} /\ pool'.exc = NoExc
            => /\ Len(pool'.candidate_movies)
                    = Min(Accumulated', pool'.max_candidates)
               /\ DOMAIN pool'.fetched \subseteq CandidateIdSet'
               /\ pool'.processed
                    >= Len(pool'.enriched_candidates) + pool'.filtered_count
       /\ pool'.pc = "done" /\ pool'.exc = NoExc
            => /\ DOMAIN pool'.fetched = CandidateIdSet'
               /\ \A id \in DOMAIN pool'.fetched : pool'.fetched[id] = 1
               /\ pool'.processed = Len(pool'.candidate_movies)]_vars

C21_Witness ==
    /\ pool.pc = "done"
    /\ pool.exc = NoExc
    /\ WatchedIdSet = {1, 2}
    /\ Len(pool.watched_movies) = 2
    /\ pool.max_candidates = 1
    /\ pool.min_rating = 9
    /\ \A a \in 1..Len(pool.queried) : pool.queried[a].seed = 1
    /\ pool.filtered_count = 1
    /\ pool.enriched_candidates = <<>>
    /\ DOMAIN pool.fetched = CandidateIdSet

\* The score the specification gives result r for the title and year of px:
\* the similarity of the normalized titles, plus the bonus for an equal year.
ScoreOf(r) ==
    FracAdd(Ratio(_normalize_title(px.title), _normalize_title(r.title)),
            IF px.year # None /\ r.release_date = DateOf(px.year)
            THEN YearBonus ELSE 0)

\* The first 10 positions of a list of results.
TopOf(results) == {k \in 1..Len(results) : k <= TopResults}

\* C22: when a year is given and the first result of the year-qualified query
\* has that release year, search_movie returns the id of that result, stores
\* it under the query's key and issues no second request.
C22_Strategy1 ==
    px.pc = "searched" /\ px.results # <<>>
        /\ px.results[1].release_date = DateOf(px.year)
    => /\ px.f.pc = "done"
       /\ px.f.exc = NoExc
       /\ px.f.ret_id = px.results[1].id
       /\ ~px.second
       /\ px.f.nsearch = 1
       /\ DOMAIN px.c = {[op |-> "search", title |-> px.title, year |-> px.year]}
       /\ \A key \in DOMAIN px.c : px.c[key] = px.results[1].id

C22_Witness ==
    /\ px.pc = "searched"
    /\ px.title = T_TheUp
    /\ px.year = Y1994
    /\ Len(px.results) = 2
    /\ px.results[1].title = T_Xy
    /\ px.results[2].title = T_Up
    /\ px.f.ret_id = 4
    /\ px.f.via = "strategy1"

\* C23: a search_movie resolution that saw at least one result, from the
\* year-qualified query or from the title-only one, yields an identity.
C23_SomeResultSomeIdentity ==
    px.pc = "searched" /\ px.f.exc = NoExc
        /\ (px.results # <<>> \/ px.results_no_year # <<>>)
    => px.f.ret_id # None

\* C24: the lowered threshold accepts exactly when a year is given, no earlier
\* step accepted and one of the first 10 title-only results scores at least
\* 75; what it accepts is such a result, and its score is below 85, while
\* the fuzzy match at threshold 85 accepts only results that score 85 or more.
C24_LoweredThreshold ==
    px.pc = "searched" =>
      LET close == {k \in TopOf(px.results_no_year) :
                      FracGeInt(ScoreOf(px.results_no_year[k]), LowerThreshold)}
          good == {k \in TopOf(px.results_no_year) :
                      FracGeInt(ScoreOf(px.results_no_year[k]), DefaultThreshold)}
      IN  /\ px.f.via = "lower_threshold"
                <=> /\ px.year # None
                    /\ px.second
                    /\ px.results = <<>>
                    /\ good = {}
                    /\ close # {}
          /\ px.f.via = "lower_threshold"
                => \E k \in close :
                     /\ px.f.ret_id = px.results_no_year[k].id
                     /\ \A j \in close :
                          ~FracGt(ScoreOf(px.results_no_year[j]),
                                  ScoreOf(px.results_no_year[k]))
          /\ px.f.via = "fuzzy_no_year"
                => \E k \in good : px.f.ret_id = px.results_no_year[k].id

C24_Witness ==
    /\ px.pc = "searched"
    /\ px.title = T_TheUp
    /\ px.year = Y1972
    /\ px.results = <<>>
    /\ Len(px.results_no_year) = 2
    /\ px.results_no_year[1].title = T_Xy
    /\ px.results_no_year[2].title = T_Ups
    /\ px.f.via = "lower_threshold"
    /\ px.f.ret_id = 3

\* C25: _fuzzy_match_title returns the id of the earliest of the highest
\* scoring results among the first 10 when that score reaches the threshold,
\* and None otherwise.
C25_BestOfFirstTen ==
    px.pc = "matched" =>
      LET top == TopOf(px.results)
          reach == {k \in top : FracGeInt(ScoreOf(px.results[k]), px.threshold)}
          best == {k \in reach :
                     \A j \in top :
                        /\ ~FracGt(ScoreOf(px.results[j]), ScoreOf(px.results[k]))
                        /\ j < k => FracGt(ScoreOf(px.results[k]),
                                           ScoreOf(px.results[j]))}
      IN  /\ px.ret.raise = NoExc
          /\ reach = {} => px.ret.value = None
          /\ reach # {} => /\ Cardinality(best) = 1
                           /\ \A k \in best : px.ret.value = px.results[k].id

C25_Witness ==
    /\ px.pc = "matched"
    /\ px.title = T_TheUp
    /\ px.year = Y1994
    /\ px.threshold = DefaultThreshold
    /\ Len(px.results) = TopResults + 1
    /\ px.results[TopResults].title = T_Ups
    /\ px.results[TopResults + 1].title = T_Up
    /\ px.ret.value = 3

\* C26 as stated: a search_movie call issues no request on a cache hit, one
\* when no year is given or strategy 1 accepts, and two whenever a year is
\* given and strategy 1 does not accept.
C26_RequestsPerCall ==
    LET f == fr[Caller]
    IN  /\ f.nsearch <= 2
        /\ f.via = "cache" => f.nsearch = 0
        /\ f.via \notin {"none", "cache"} /\ (f.year = None \/ f.via = "strategy1")
             => f.nsearch = 1
        /\ f.via \notin {"none", "cache", "strategy1"} /\ f.year # None
             => f.nsearch = 2

\* C26, amended: as above, but with a year given the second request follows
\* only a year-qualified request that was answered; when that request fails
\* the call ends after it.  The title-only query follows the year-qualified
\* one and nothing follows it.
C26_RequestsPerAnsweredCall ==
    [][LET f == fr[Caller]
           g == fr'[Caller]
       IN  /\ g.nsearch <= 2
           /\ g.via = "cache" => g.nsearch = 0
           /\ g.via \notin {"none", "cache"} /\ (g.year = None \/ g.via = "strategy1")
                => g.nsearch = 1
           /\ g.via \notin {"none", "cache", "strategy1", "error"} /\ g.year # None
                => g.nsearch = 2
           /\ g.pc = "search_req_no_year"
                => /\ f.pc \in {"search_req", "search_req_no_year"}
                   /\ g.year # None
                   /\ g.nsearch = 1
           /\ f.pc = "search_req" /\ g # f
                => IF Last(g.http) = "200"
                   THEN \/ g.pc = "search_req_no_year"
                        \/ g.nsearch = 1
                             /\ (g.year = None \/ g.via = "strategy1" \/ g.exc # NoExc)
                   ELSE /\ g.nsearch = 1
                        /\ g.pc = "done"
                        /\ g.via = "error" \/ g.exc # NoExc
           /\ f.pc = "search_req_no_year" /\ g # f
                => g.nsearch = 2 /\ g.pc \notin {"search_req", "search_req_no_year"}]_vars

C26_Witness ==
    /\ fr[Caller].op = "search_movie"
    /\ fr[Caller].pc = "done"
    /\ fr[Caller].year = Y1972
    /\ fr[Caller].via = "lower_threshold"
    /\ fr[Caller].nsearch = 2
    /\ cache # EmptyMap

\* C27: get_movie_details asked for an id the cache does not hold issues one
\* request and, when a record comes of it, stores the record under the id; asked
\* for an id the cache holds it issues no request and returns the stored
\* record; and a stored record stays as it is until the cache is cleared.
C27_OneFetchPerId ==
    [][LET f == fr[Caller]
           g == fr'[Caller]
           key == [op |-> "details", id |-> f.movie_id]
       IN  /\ f.op = "get_movie_details" /\ f.pc = "details_cache" /\ g # f
                => IF key \in DOMAIN cache
                   THEN /\ g.pc = "done"
                        /\ g.exc = NoExc
                        /\ g.ndetail = 0
                        /\ g.ret_rec = cache[key]
                        /\ g.ret_rec.tmdb_id = f.movie_id
                        /\ cache' = cache
                   ELSE g.pc = "details_req" /\ g.ndetail = 0
           /\ f.op = "get_movie_details" /\ f.pc = "details_req" /\ g # f
                => /\ g.pc = "done"
                   /\ g.ndetail = 1
                   /\ g.exc = NoExc /\ g.ret_rec # NoneRec
                        => /\ key \in DOMAIN cache'
                           /\ cache'[key] = g.ret_rec
                           /\ g.ret_rec.tmdb_id = f.movie_id
           /\ \A id \in Ids :
                LET k == [op |-> "details", id |-> id]
                IN  k \in DOMAIN cache
                      => \/ cache' = EmptyMap
                         \/ k \in DOMAIN cache' /\ cache'[k] = cache[k]]_vars

C27_Witness ==
    /\ fr[Caller].op = "get_movie_details"
    /\ fr[Caller].pc = "done"
    /\ fr[Caller].movie_id = 1
    /\ fr[Caller].dvia = "cache"
    /\ fr[Caller].ndetail = 0
    /\ fr[Caller].ret_rec # NoneRec
    /\ fr[Caller].ret_rec = cache[[op |-> "details", id |-> 1]]

\* C28: in build_candidate_pool the accumulated candidates and the returned
\* records have pairwise distinct tmdb_ids, and no id has more than one
\* detail request.
C28_DistinctIds ==
    /\ \A j, k \in 1..Len(pool.candidate_movies) :
          pool.candidate_movies[j].tmdb_id = pool.candidate_movies[k].tmdb_id
            => j = k
    /\ \A j, k \in 1..Len(pool.enriched_candidates) :
          pool.enriched_candidates[j].tmdb_id = pool.enriched_candidates[k].tmdb_id
            => j = k
    /\ \A id \in DOMAIN pool.fetched : pool.fetched[id] <= 1

C28_Witness ==
    /\ pool.pc = "done"
    /\ pool.exc = NoExc
    /\ Len(pool.enriched_candidates) = 2
    /\ \A k \in 1..2 : pool.enriched_candidates[k].tmdb_id \in pool.repeated
    /\ \E a \in 1..Len(pool.queried) : pool.queried[a].seed = 2

\* C29: a call of enrich_movies on its parallel path returns; every item it
\* submitted runs to its end; and when it returns every item of the list has
\* been handed over by as_completed and no future is queued or running.
C29_Terminates ==
    /\ (job.pc \in {"submit", "collect"}) ~> (job.pc = "done")
    /\ \A t \in Futures :
          (fr[t].pc \notin {"idle", "done"}) ~> (fr[t].pc = "done")
    /\ [][job.pc # "done" /\ job'.pc = "done"
            => /\ job.processed = Total
               /\ DOMAIN job.log = 1..Total
               /\ \A t \in Futures : fr[t].pc \in {"idle", "done"}]_vars

C29_Witness ==
    /\ job.pc = "done"
    /\ job.parallel
    /\ job.batch_size = 1
    /\ Total = 2
    /\ job.processed = 2
    /\ Len(job.enriched_movies) = 1
    /\ job.log[1].auth_failed

\* C30: when a request of search_movie or of get_movie_details fails (a
\* status other than 200, a timeout, a connection failure), the operation
\* returns absent and the cache is as it was.
C30_FailureLeavesCache ==
    [][LET f == fr[Caller]
           g == fr'[Caller]
       IN  /\ f.pc \in {"search_req", "search_req_no_year", "details_req"}
           /\ g # f
           /\ Last(g.http) # "200"
           => /\ cache' = cache
              /\ g.pc = "done"
              /\ g.exc = NoExc
              /\ g.ret_id = None
              /\ g.ret_rec = NoneRec]_vars
====
